---- MODULE Spec2Model ----
(***************************************************************************)
(* Model of simkl_mps/tray_base.py: class TrayAppBase.                     *)
(*                                                                         *)
(* The tray object's fields are the record `self`.  The engine behind it   *)
(* (SimklScrobbler, its monitor, the settings store, the notification      *)
(* sink, the platform dialog) is the environment: each call into it draws  *)
(* its outcome from a small set.  Menu callbacks (start_monitoring,        *)
(* stop_monitoring, process_backlog, open_simkl_history,                   *)
(* _set_preset_threshold, set_custom_watch_threshold) and update_status    *)
(* run one at a time on the menu thread; the dialog thread and the         *)
(* processing thread of each custom-threshold invocation run concurrently  *)
(* with it, one statement group per step.                                  *)
(*                                                                         *)
(* An optional integer (Python `int | None`) is a tuple: <<>> is None and  *)
(* <<v>> is the integer v.                                                 *)
(***************************************************************************)
EXTENDS Integers, Sequences, FiniteSets, TLC

VARIABLES
    self,                 \* TrayAppBase fields: scrobbler, monitoring_active, status, status_details, last_scrobbled
    monitor_running,      \* self.scrobbler.monitor.running (FALSE while there is no scrobbler)
    completion_threshold, \* self.scrobbler.monitor.scrobbler.completion_threshold (None while there is no scrobbler)
    setting,              \* the persisted 'watch_completion_threshold' setting
    thr,                  \* per thread running _apply_threshold_change: position, new_threshold, timed out
    dlg,                  \* per set_custom_watch_threshold invocation: the dialog thread and what the dialog gave
    result_queue,         \* per invocation: the items on its queue.Queue
    applyErr,             \* an exception was raised inside some _apply_threshold_change
    initialized,          \* self.scrobbler.initialize() has returned True (FALSE while there is no scrobbler)
    creds,                \* what get_credentials() finds: which of client_id, access_token, user_id are set
    ev                    \* what the last step did: operation, return value, engine calls, notifications

vars == <<self, monitor_running, completion_threshold, setting, thr, dlg, result_queue, applyErr, initialized, creds, ev>>

None == <<>>
Some(v) == <<v>>

\* config_manager.DEFAULT_THRESHOLD (the menu labels 80 as the default)
DEFAULT_THRESHOLD == 80

\* str(e) of an exception the environment raises
ExcMsgs == {"boom"}

\* largest count a backlog result carries in the model
MaxBacklog == 2

\* set_custom_watch_threshold invocations in one run
MaxInvocations == 2

\* the preset menu entries (lines 668-670)
Presets == {65, 80, 90}

\* integers the platform dialog returns: below, inside and above 1..100, the
\* default among them
DialogInts == {0, 50, 80, 101}

\* thread 0 is the menu thread; thread i > 0 is the processing thread of
\* invocation i
MenuThread == 0
Invocations == 1..MaxInvocations
Threads == {MenuThread} \cup Invocations

----------------------------------------------------------------------------
(* TrayAppBase.__init__ *)

InitSelf ==
    [scrobbler |-> "None",
     monitoring_active |-> FALSE,
     status |-> "stopped",
     status_details |-> "",
     last_scrobbled |-> None]

\* check_first_run: the base class leaves is_first_run False
is_first_run == FALSE

\* the record of a step: op, the thread that took it, the value it put on or
\* took from a queue (for a backlog summary, which counts of the result were
\* positive), its return value ("raised" when an exception
\* escaped it), the failure path taken, the engine calls made, the
\* notifications delivered, whether a show_notification call raised, and how
\* often update_icon ran
Event(op, tid, ret, path, calls, notes, sinkFailed, icons) ==
    [op |-> op, tid |-> tid, value |-> None, ret |-> ret, path |-> path,
     calls |-> calls, notes |-> notes, sinkFailed |-> sinkFailed, icons |-> icons]

\* a step that hands a threshold value over a queue
QueueEvent(op, tid, value, path) ==
    [Event(op, tid, "", path, <<>>, <<>>, FALSE, 0) EXCEPT !.value = value]

\* a step of a menu callback
MenuEvent(op, ret, path, calls, notes, sinkFailed, icons) ==
    Event(op, MenuThread, ret, path, calls, notes, sinkFailed, icons)

\* menu callbacks run one after the other on the menu thread
MenuIdle == thr[MenuThread].pc = "idle"

----------------------------------------------------------------------------
(* update_status(new_status, details="", last_scrobbled=None) *)

StatusChanged(s, new_status, details, last_scrobbled) ==
    \/ new_status # s.status
    \/ details # s.status_details
    \/ last_scrobbled # s.last_scrobbled

\* Truthy, were line 140's test left out and the argument always stored
AlwaysStored(last_scrobbled) == TRUE

\* line 140, `if last_scrobbled:` -- None and the empty string are false
Truthy(last_scrobbled) == last_scrobbled # None /\ last_scrobbled # Some("")

update_status(s, new_status, details, last_scrobbled) ==
    IF StatusChanged(s, new_status, details, last_scrobbled)
    THEN [s EXCEPT !.status = new_status,
                   !.status_details = details,
                   !.last_scrobbled = IF Truthy(last_scrobbled) THEN last_scrobbled ELSE @]
    ELSE s

\* update_icon() calls made by that update_status call
StatusIcons(s, new_status, details, last_scrobbled) ==
    IF StatusChanged(s, new_status, details, last_scrobbled) THEN 1 ELSE 0

\* the statuses get_status_text names
StatusMap == {"running", "paused", "stopped", "error"}

\* the detail strings and the last-scrobbled values a caller passes: omitted
\* (None), the empty string, or a title
DetailArgs == {"", "detail"}
LastScrobbledArgs == {None, Some(""), Some("A"), Some("B")}

\* update_status called from outside this class (the platform tray and the
\* engine's callbacks), with any arguments
UpdateStatus ==
    /\ MenuIdle
    /\ \E new_status \in StatusMap, details \in DetailArgs, last_scrobbled \in LastScrobbledArgs :
        /\ self' = update_status(self, new_status, details, last_scrobbled)
        /\ ev' = [MenuEvent("update_status", "None", "", <<>>, <<>>, FALSE,
                             StatusIcons(self, new_status, details, last_scrobbled))
                     EXCEPT !.value = <<new_status, details, last_scrobbled>>]
    /\ UNCHANGED <<monitor_running, completion_threshold, setting, thr, dlg, result_queue, applyErr, creds, initialized>>

----------------------------------------------------------------------------
(* open_simkl_history.  Of the mapping get_credentials() returns the code   *)
(* reads whether client_id, access_token and user_id are set (a missing    *)
(* key and an empty value are both false).                                 *)

\* the mappings the credential provider can return, partial and empty ones
\* included
Credentials == [client_id : BOOLEAN, access_token : BOOLEAN, user_id : BOOLEAN]

\* the mapping once the user has authenticated and the user id was saved
Authenticated == [client_id |-> TRUE, access_token |-> TRUE, user_id |-> TRUE]

\* lines 314-316: the except clause; n2 says whether its show_notification
\* call succeeds
HistoryExcept(c, path, calls, sinkFailed, n2) ==
    IF n2
    THEN [creds |-> c,
          ev |-> MenuEvent("open_simkl_history", "None", path, calls,
                           <<"Failed to open SIMKL history">>, sinkFailed, 0)]
    ELSE [creds |-> c,
          ev |-> MenuEvent("open_simkl_history", "raised", path, calls, <<>>, TRUE, 0)]

\* lines 283-287: no stored user id, and client_id or access_token is missing
HistoryMissing(c, n1, n2) ==
    IF n1
    THEN [creds |-> c,
          ev |-> MenuEvent("open_simkl_history", "None", "missing", <<>>,
                           <<"Missing credentials to fetch user history">>, FALSE, 0)]
    ELSE HistoryExcept(c, "missing", <<>>, TRUE, n2)

\* lines 289-313: fetch the user id with get_user_settings, open the page and
\* save the user id to the credentials file
HistoryFetch(c, settings, openOk, saveOk, n1, n2) ==
    LET calls == <<"get_user_settings">>
    IN  CASE settings = "raise" -> HistoryExcept(c, "fetch_raised", calls, FALSE, n2)
          [] settings = "user_id" ->
                IF ~openOk
                THEN HistoryExcept(c, "open_raised", calls \o <<"webbrowser.open">>, FALSE, n2)
                ELSE IF ~saveOk
                     THEN HistoryExcept(c, "save_raised",
                                        calls \o <<"webbrowser.open", "_save_access_token">>, FALSE, n2)
                     ELSE [creds |-> [c EXCEPT !.user_id = TRUE],
                           ev |-> MenuEvent("open_simkl_history", "None", "fetched",
                                            calls \o <<"webbrowser.open", "_save_access_token">>,
                                            <<>>, FALSE, 0)]
          [] OTHER ->
                IF n1
                THEN [creds |-> c,
                      ev |-> MenuEvent("open_simkl_history", "None", "no_user_id", calls,
                                       <<"Could not retrieve user ID to open history">>, FALSE, 0)]
                ELSE HistoryExcept(c, "no_user_id", calls, TRUE, n2)

\* open_simkl_history(_): settings is what get_user_settings does (it returns
\* None, settings without a user id, settings with one, or raises), openOk and
\* saveOk whether webbrowser.open and _save_access_token return
open_simkl_history(c, settings, openOk, saveOk, n1, n2) ==
    IF c.user_id
    THEN IF openOk
         THEN [creds |-> c,
               ev |-> MenuEvent("open_simkl_history", "None", "stored_user_id",
                                <<"webbrowser.open">>, <<>>, FALSE, 0)]
         ELSE HistoryExcept(c, "open_raised", <<"webbrowser.open">>, FALSE, n2)
    ELSE IF ~c.client_id \/ ~c.access_token
         THEN HistoryMissing(c, n1, n2)
         ELSE HistoryFetch(c, settings, openOk, saveOk, n1, n2)

OpenSimklHistory ==
    /\ MenuIdle
    /\ \E settings \in {"none", "no_user_id", "user_id", "raise"},
          openOk \in BOOLEAN, saveOk \in BOOLEAN, n1 \in BOOLEAN, n2 \in BOOLEAN :
        LET r == open_simkl_history(creds, settings, openOk, saveOk, n1, n2)
        IN  /\ creds' = r.creds
            /\ ev' = r.ev
    /\ UNCHANGED <<self, monitor_running, completion_threshold, setting, thr, dlg, result_queue, applyErr, initialized>>

----------------------------------------------------------------------------
(* start_monitoring *)

\* ClearStale, were the flag trusted as it stands
KeepStale(s, mr) == s

\* lines 403-405: a monitor that is no longer running clears the flag
ClearStale(s, mr) ==
    IF s.scrobbler # "None" /\ ~mr THEN [s EXCEPT !.monitoring_active = FALSE] ELSE s

\* the except clause of lines 449-457, entered with the exception's message;
\* n2 says whether its show_notification call succeeds
StartExcept(s, msg, n2, path, calls, notes, sinkFailed, icons, mr) ==
    LET s1 == [s EXCEPT !.monitoring_active = FALSE]
        s2 == update_status(s1, "error", msg, None)
        ic == icons + StatusIcons(s1, "error", msg, None)
    IN  IF n2
        THEN [self |-> s2, mr |-> mr,
              ev |-> MenuEvent("start_monitoring", "False", path, calls,
                           notes \o <<"Error starting monitoring">>, sinkFailed, ic)]
        ELSE [self |-> s2, mr |-> mr,
              ev |-> MenuEvent("start_monitoring", "raised", path, calls, notes, TRUE, ic)]

\* lines 423-457: scrobbler.start() and what follows it
StartTry(s, mr, manual, startRes, msg, n1, n2, calls0) ==
    LET calls == calls0 \o <<"start">>
    IN  CASE startRes = "raise" ->
                StartExcept(s, msg, n2, "start_raised", calls, <<>>, FALSE, 0, mr)
          [] startRes = "true" ->
                LET s1 == [s EXCEPT !.monitoring_active = TRUE]
                    s2 == update_status(s1, "running", "", None)
                    ic == StatusIcons(s1, "running", "", None)
                IN  IF is_first_run \/ manual
                    THEN IF n1
                         THEN [self |-> s2, mr |-> TRUE,
                               ev |-> MenuEvent("start_monitoring", "True", "started", calls,
                                            <<"Media monitoring started">>, FALSE, ic)]
                         ELSE StartExcept(s2, msg, n2, "started", calls, <<>>, TRUE, ic, TRUE)
                    ELSE [self |-> s2, mr |-> TRUE,
                          ev |-> MenuEvent("start_monitoring", "True", "started", calls, <<>>, FALSE, ic)]
          [] OTHER ->
                LET s1 == [s EXCEPT !.monitoring_active = FALSE]
                    s2 == update_status(s1, "error", "Failed to start", None)
                    ic == StatusIcons(s1, "error", "Failed to start", None)
                IN  IF n1
                    THEN [self |-> s2, mr |-> mr,
                          ev |-> MenuEvent("start_monitoring", "False", "start_false", calls,
                                       <<"Failed to start monitoring">>, FALSE, ic)]
                    ELSE StartExcept(s2, msg, n2, "start_false", calls, <<>>, TRUE, ic, mr)

\* StartAlready, were a second start refused with False
StartAlreadyReturnsFalse(s, mr) ==
    [self |-> s, mr |-> mr,
     ev |-> MenuEvent("start_monitoring", "False", "already", <<>>, <<>>, FALSE, 0)]

\* lines 407 and 458: monitoring is already active, nothing is done
StartAlready(s, mr) ==
    [self |-> s, mr |-> mr,
     ev |-> MenuEvent("start_monitoring", "True", "already", <<>>, <<>>, FALSE, 0)]

\* start_monitoring(_): manual is `_ is not None`; initOk, startRes and msg are
\* what initialize() and start() do, n1 and n2 whether the first and the second
\* show_notification call succeed
start_monitoring(s0, mr, manual, initOk, startRes, msg, n1, n2) ==
    LET s == ClearStale(s0, mr)
    IN  IF s.monitoring_active
        THEN StartAlready(s, mr)
        ELSE IF s.scrobbler = "None"
             THEN LET s1 == [s EXCEPT !.scrobbler = "obj"]
                  IN  IF ~initOk
                      THEN LET s2 == update_status(s1, "error", "Failed to initialize", None)
                               ic == StatusIcons(s1, "error", "Failed to initialize", None)
                           IN  IF n1
                               THEN [self |-> [s2 EXCEPT !.monitoring_active = FALSE], mr |-> mr,
                                     ev |-> MenuEvent("start_monitoring", "False", "init_failed",
                                                  <<"initialize">>, <<"Failed to initialize">>, FALSE, ic)]
                               ELSE [self |-> s2, mr |-> mr,
                                     ev |-> MenuEvent("start_monitoring", "raised", "init_failed",
                                                  <<"initialize">>, <<>>, TRUE, ic)]
                      ELSE StartTry(s1, mr, manual, startRes, msg, n1, n2, <<"initialize">>)
             ELSE StartTry(s, mr, manual, startRes, msg, n1, n2, <<>>)

\* the completion_threshold of a scrobbler that has just been built: the
\* engine reads the persisted threshold
NewScrobblerThreshold(persisted) == Some(persisted)

\* what a start_monitoring call can do in a given state, over everything
\* initialize(), start() and show_notification can do
StartOutcomes(s, mr) ==
    {start_monitoring(s, mr, manual, initOk, startRes, msg, n1, n2) :
        manual \in BOOLEAN, initOk \in BOOLEAN, startRes \in {"true", "false", "raise"},
        msg \in ExcMsgs, n1 \in BOOLEAN, n2 \in BOOLEAN}

StartMonitoring ==
    /\ MenuIdle
    /\ \E r \in StartOutcomes(self, monitor_running) :
        /\ self' = r.self
        /\ monitor_running' = r.mr
        /\ completion_threshold' =
               IF self.scrobbler = "None" /\ r.self.scrobbler # "None"
               THEN NewScrobblerThreshold(setting) ELSE completion_threshold
        /\ initialized' =
               IF r.ev.calls # <<>> /\ r.ev.calls[1] = "initialize"
               THEN r.ev.path # "init_failed" ELSE initialized
        /\ ev' = r.ev
        /\ UNCHANGED <<setting, thr, dlg, result_queue, applyErr, creds>>

----------------------------------------------------------------------------
(* stop_monitoring *)

\* StopActive, were the status set to the "paused" of the menu's "Pause
\* Monitoring" entry
StopActivePaused(s, mr, n1) ==
    LET s1 == [s EXCEPT !.monitoring_active = FALSE]
        s2 == update_status(s1, "paused", "", None)
        ic == StatusIcons(s1, "paused", "", None)
        calls == IF s.scrobbler # "None" THEN <<"stop">> ELSE <<>>
        mr1 == IF s.scrobbler # "None" THEN FALSE ELSE mr
    IN  IF n1
        THEN [self |-> s2, mr |-> mr1,
              ev |-> MenuEvent("stop_monitoring", "True", "stopped", calls,
                               <<"Media monitoring stopped">>, FALSE, ic)]
        ELSE [self |-> s2, mr |-> mr1,
              ev |-> MenuEvent("stop_monitoring", "raised", "stopped", calls, <<>>, TRUE, ic)]

\* lines 463-476: the body run while monitoring is active
StopActive(s, mr, n1) ==
    LET s1 == [s EXCEPT !.monitoring_active = FALSE]
        s2 == update_status(s1, "stopped", "", None)
        ic == StatusIcons(s1, "stopped", "", None)
        calls == IF s.scrobbler # "None" THEN <<"stop">> ELSE <<>>
        mr1 == IF s.scrobbler # "None" THEN FALSE ELSE mr
    IN  IF n1
        THEN [self |-> s2, mr |-> mr1,
              ev |-> MenuEvent("stop_monitoring", "True", "stopped", calls,
                               <<"Media monitoring stopped">>, FALSE, ic)]
        ELSE [self |-> s2, mr |-> mr1,
              ev |-> MenuEvent("stop_monitoring", "raised", "stopped", calls, <<>>, TRUE, ic)]

\* stop_monitoring without the monitoring_active test of line 462
stop_monitoring_unguarded(s, mr, n1) == StopActive(s, mr, n1)

\* stop_monitoring(_): n1 says whether its show_notification call succeeds
stop_monitoring(s, mr, n1) ==
    IF s.monitoring_active
    THEN StopActive(s, mr, n1)
    ELSE [self |-> s, mr |-> mr,
          ev |-> MenuEvent("stop_monitoring", "False", "inactive", <<>>, <<>>, FALSE, 0)]

StopMonitoring ==
    /\ MenuIdle
    /\ \E n1 \in BOOLEAN :
        LET r == stop_monitoring(self, monitor_running, n1)
        IN  /\ self' = r.self
            /\ monitor_running' = r.mr
            /\ ev' = r.ev
            /\ UNCHANGED <<completion_threshold, setting, thr, dlg, result_queue, applyErr, creds, initialized>>

----------------------------------------------------------------------------
(* process_backlog and its worker _process *)

\* what scrobbler.monitor.scrobbler.process_backlog() gives: a dictionary, the
\* legacy integer, or an exception
BacklogResults ==
    [kind : {"dict"}, processed : 0..MaxBacklog, attempted : 0..MaxBacklog, failed : BOOLEAN]
    \cup [kind : {"int"}, processed : 0..MaxBacklog, attempted : {0}, failed : {FALSE}]
    \cup [kind : {"raise"}, processed : {0}, attempted : {0}, failed : {FALSE}]

\* lines 486-518: the notification the result selects
BacklogMessage(res) ==
    IF res.kind = "dict"
    THEN IF res.processed > 0 THEN "Processed p of a backlog items"
         ELSE IF res.attempted > 0 /\ res.failed THEN "No backlog items processed successfully"
         ELSE "No backlog items to process"
    ELSE IF res.processed > 0 THEN "Processed p backlog items"
         ELSE "No backlog items to process"

\* lines 491 and 496: what the worker tests of a dictionary result's counts,
\* count_value > 0 and attempted > 0, kept in the step's record; None for the
\* legacy integer
ResultTests(res) ==
    IF res.kind = "dict" THEN <<res.processed > 0, res.attempted > 0>> ELSE None

\* lines 519-525: the except clause
BacklogExcept(s, n2, calls, sinkFailed) ==
    LET s1 == update_status(s, "error", "", None)
        ic == StatusIcons(s, "error", "", None)
    IN  IF n2
        THEN [self |-> s1,
              ev |-> MenuEvent("process_backlog", "0", "backlog_raised", calls,
                           <<"Failed to process backlog">>, sinkFailed, ic)]
        ELSE [self |-> s1,
              ev |-> MenuEvent("process_backlog", "raised", "backlog_raised", calls, <<>>, TRUE, ic)]

\* _process: with no scrobbler the attribute access raises inside the try
process(s, res, n1, n2) ==
    IF s.scrobbler = "None"
    THEN BacklogExcept(s, n2, <<>>, FALSE)
    ELSE IF res.kind = "raise"
         THEN BacklogExcept(s, n2, <<"process_backlog">>, FALSE)
         ELSE IF n1
              THEN [self |-> s,
                    ev |-> [MenuEvent("process_backlog", "0", "summary", <<"process_backlog">>,
                                      <<BacklogMessage(res)>>, FALSE, 0)
                              EXCEPT !.value = ResultTests(res)]]
              ELSE BacklogExcept(s, n2, <<"process_backlog">>, TRUE)

\* The worker thread touches the tray only in this one step, so starting it
\* and running it are one action: every interleaving of the start, another
\* menu callback and the worker's run equals one order of the callbacks.
BacklogOutcomes(s) ==
    {process(s, res, n1, n2) : res \in BacklogResults, n1 \in BOOLEAN, n2 \in BOOLEAN}

ProcessBacklog ==
    /\ MenuIdle
    /\ \E r \in BacklogOutcomes(self) :
        /\ self' = r.self
        /\ ev' = r.ev
        /\ UNCHANGED <<monitor_running, completion_threshold, setting, thr, dlg, result_queue, applyErr, creds, initialized>>

----------------------------------------------------------------------------
(* _apply_threshold_change(new_threshold), run by thread t.  get_setting,   *)
(* set_setting and the write of completion_threshold are the statements    *)
(* that touch state shared between threads: each starts a step.            *)
(* show_notification and update_icon touch none, so they are taken in the  *)
(* step of the statement before them.                                      *)

\* thread t once its _apply_threshold_change has returned: the menu thread
\* is free for the next callback, a processing thread has ended
Finished(t) ==
    [pc |-> IF t = MenuThread THEN "idle" ELSE "done", new |-> None, timeout |-> thr[t].timeout]

\* ThresholdDiffers without the comparison with the current setting
ThresholdGiven(new_threshold, current_threshold) ==
    new_threshold # None

\* line 538: the change is applied
ThresholdDiffers(new_threshold, current_threshold) ==
    new_threshold # None /\ new_threshold[1] # current_threshold

\* lines 535-538, 561-566: read the setting and pick the branch; the two
\* branches that apply nothing refresh the icon and return
ApplyRead(t) ==
    /\ thr[t].pc = "read"
    /\ LET current_threshold == setting
       IN  IF ThresholdDiffers(thr[t].new, current_threshold)
           THEN /\ thr' = [thr EXCEPT ![t].pc = "set"]
                /\ ev' = Event("apply_read", t, "", "apply", <<>>, <<>>, FALSE, 0)
           ELSE /\ thr' = [thr EXCEPT ![t] = Finished(t)]
                /\ ev' = Event("apply_read", t, "",
                               IF thr[t].new = None THEN "cancelled" ELSE "unchanged",
                               <<>>, <<>>, FALSE, 1)
    /\ UNCHANGED <<self, monitor_running, completion_threshold, setting, dlg, result_queue, applyErr, creds, initialized>>

\* the value set_setting stores for a requested threshold
StoredValue(new_threshold) == new_threshold[1]

\* lines 557-560, entered from the try block: the except clause.  When its
\* own notification raises (n2 false), the exception leaves
\* _apply_threshold_change: the menu thread's callback ends with it, a
\* processing thread catches it (line 620) and calls
\* _apply_threshold_change(None)
ApplyExcept(t, n2, path, calls, sinkFailed) ==
    /\ applyErr' = TRUE
    /\ IF n2
       THEN /\ thr' = [thr EXCEPT ![t] = Finished(t)]
            /\ ev' = Event("apply_set", t, "", path, calls,
                           <<"Failed to set watch threshold">>, sinkFailed, 1)
       ELSE IF t = MenuThread
            THEN /\ thr' = [thr EXCEPT ![t] = Finished(t)]
                 /\ ev' = Event("apply_set", t, "raised", path, calls, <<>>, TRUE, 0)
            ELSE /\ thr' = [thr EXCEPT ![t].pc = "read", ![t].new = None]
                 /\ ev' = Event("apply_set", t, "", path, calls, <<>>, TRUE, 0)

\* lines 541-543: set_setting (setOk: it does not raise) and the "Settings
\* Updated" notification (n1: it does not raise)
ApplySet(t) ==
    /\ thr[t].pc = "set"
    /\ \E setOk \in BOOLEAN, n1 \in BOOLEAN, n2 \in BOOLEAN :
        IF setOk
        THEN /\ setting' = StoredValue(thr[t].new)
             /\ IF n1
                THEN /\ thr' = [thr EXCEPT ![t].pc = "update"]
                     /\ ev' = Event("apply_set", t, "", "apply", <<"set_setting">>,
                                    <<"Settings Updated">>, FALSE, 0)
                     /\ UNCHANGED applyErr
                ELSE ApplyExcept(t, n2, "notify_raised", <<"set_setting">>, TRUE)
        ELSE /\ UNCHANGED setting
             /\ ApplyExcept(t, n2, "set_raised", <<"set_setting">>, FALSE)
    /\ UNCHANGED <<self, monitor_running, completion_threshold, dlg, result_queue, creds, initialized>>

\* lines 546-555: update the running scrobbler, refresh the icon, return
ApplyUpdate(t) ==
    /\ thr[t].pc = "update"
    /\ completion_threshold' =
           IF self.scrobbler # "None" THEN thr[t].new ELSE completion_threshold
    /\ thr' = [thr EXCEPT ![t] = Finished(t)]
    /\ ev' = Event("apply_update", t, "", "apply", <<>>, <<>>, FALSE, 1)
    /\ UNCHANGED <<self, monitor_running, setting, dlg, result_queue, applyErr, creds, initialized>>

----------------------------------------------------------------------------
(* _set_preset_threshold *)

SetPresetThreshold ==
    /\ MenuIdle
    /\ \E threshold_value \in Presets :
        LET current_threshold == setting
        IN  /\ IF threshold_value # current_threshold
               THEN thr' = [thr EXCEPT ![MenuThread] =
                               [pc |-> "read", new |-> Some(threshold_value), timeout |-> FALSE]]
               ELSE UNCHANGED thr
            /\ ev' = Event("preset", MenuThread, "0", "", <<>>, <<>>, FALSE, 0)
    /\ UNCHANGED <<self, monitor_running, completion_threshold, setting, dlg, result_queue, applyErr, creds, initialized>>

----------------------------------------------------------------------------
(* set_custom_watch_threshold and its two threads *)

\* QueueOf, were the queue one object shared by all invocations
SharedQueue(i) == 1

\* line 583: every invocation builds a queue of its own
QueueOf(i) == i

\* lines 627-632: start the dialog thread and the processing thread of the
\* next invocation
SetCustomWatchThreshold ==
    /\ MenuIdle
    /\ \E i \in Invocations :
        /\ dlg[i] = "idle"
        /\ \A j \in Invocations : j < i => dlg[j] # "idle"
        /\ dlg' = [dlg EXCEPT ![i] = "asking"]
        /\ thr' = [thr EXCEPT ![i].pc = "wait"]
        /\ ev' = Event("custom", i, "0", "", <<>>, <<>>, FALSE, 0)
    /\ UNCHANGED <<self, monitor_running, completion_threshold, setting, result_queue, applyErr, creds, initialized>>

\* lines 588-603: value_from_dialog is the dialog's return value, and stays
\* None when the dialog raised; the finally clause puts it on the queue
DialogPut(q, raised, threshold_dialog_result) ==
    Append(q, IF raised THEN None ELSE threshold_dialog_result)

\* _ask_in_thread: the dialog returns an integer or None, or raises
AskInThread(i) ==
    /\ dlg[i] = "asking"
    /\ \E raised \in BOOLEAN, result \in {None} \cup {Some(v) : v \in DialogInts} :
        /\ raised => result = None
        /\ result_queue' = [result_queue EXCEPT ![QueueOf(i)] = DialogPut(@, raised, result)]
        /\ ev' = QueueEvent("dialog", i, IF raised THEN None ELSE result,
                            IF raised THEN "dialog_raised" ELSE "dialog_returned")
    /\ dlg' = [dlg EXCEPT ![i] = "done"]
    /\ UNCHANGED <<self, monitor_running, completion_threshold, setting, thr, applyErr, creds, initialized>>

\* _process_result, line 612: result_queue.get returns the item
ProcessResultGet(i) ==
    /\ thr[i].pc = "wait"
    /\ result_queue[QueueOf(i)] # <<>>
    /\ thr' = [thr EXCEPT ![i].pc = "read", ![i].new = Head(result_queue[QueueOf(i)])]
    /\ result_queue' = [result_queue EXCEPT ![QueueOf(i)] = Tail(@)]
    /\ ev' = QueueEvent("get", i, Head(result_queue[QueueOf(i)]), "")
    /\ UNCHANGED <<self, monitor_running, completion_threshold, setting, dlg, applyErr, creds, initialized>>

\* _process_result, lines 616-619: the get times out on an empty queue.  A
\* show_notification that raises here is raised inside an except clause, so
\* it leaves the thread
ProcessResultTimeout(i) ==
    /\ thr[i].pc = "wait"
    /\ result_queue[QueueOf(i)] = <<>>
    /\ \E ok \in BOOLEAN :
        IF ok
        THEN /\ thr' = [thr EXCEPT ![i] = [pc |-> "read", new |-> None, timeout |-> TRUE]]
             /\ ev' = Event("timeout", i, "", "", <<>>, <<"Timeout">>, FALSE, 0)
        ELSE /\ thr' = [thr EXCEPT ![i] = [pc |-> "crashed", new |-> None, timeout |-> TRUE]]
             /\ ev' = Event("timeout", i, "raised", "", <<>>, <<>>, TRUE, 0)
    /\ UNCHANGED <<self, monitor_running, completion_threshold, setting, dlg, result_queue, applyErr, creds, initialized>>

----------------------------------------------------------------------------
(* the engine's monitor loop ends on its own *)

MonitorExit ==
    /\ monitor_running
    /\ monitor_running' = FALSE
    /\ ev' = MenuEvent("monitor_exit", "", "", <<>>, <<>>, FALSE, 0)
    /\ UNCHANGED <<self, completion_threshold, setting, thr, dlg, result_queue, applyErr, creds, initialized>>

----------------------------------------------------------------------------

Init ==
    /\ self = InitSelf
    /\ monitor_running = FALSE
    /\ completion_threshold = None
    /\ setting = DEFAULT_THRESHOLD
    /\ thr = [t \in Threads |-> [pc |-> "idle", new |-> None, timeout |-> FALSE]]
    /\ dlg = [i \in Invocations |-> "idle"]
    /\ result_queue = [i \in Invocations |-> <<>>]
    /\ applyErr = FALSE
    /\ initialized = FALSE
    /\ creds = Authenticated
    /\ ev = MenuEvent("init", "", "", <<>>, <<>>, FALSE, 0)

\* the monitoring controls
NextMonitor ==
    \/ StartMonitoring
    \/ StopMonitoring
    \/ ProcessBacklog
    \/ MonitorExit

\* the threshold menu and the threads it starts
NextThreshold ==
    \/ SetPresetThreshold
    \/ SetCustomWatchThreshold
    \/ \E i \in Invocations : AskInThread(i)
    \/ \E i \in Invocations : ProcessResultGet(i)
    \/ \E i \in Invocations : ProcessResultTimeout(i)
    \/ \E t \in Threads : ApplyRead(t)
    \/ \E t \in Threads : ApplySet(t)
    \/ \E t \in Threads : ApplyUpdate(t)

Next == NextMonitor \/ NextThreshold \/ OpenSimklHistory \/ UpdateStatus

\* the whole tray, update_status calls from outside the class included
Spec == Init /\ [][Next]_vars

\* The monitoring controls on their own: every update_status call is one
\* this class makes.  The threshold steps and open_simkl_history write no
\* field of `self` and not monitor_running.
SpecMonitor == Init /\ [][NextMonitor]_vars

\* the tray after a manual start_monitoring that succeeded
Started == start_monitoring(InitSelf, FALSE, TRUE, TRUE, "true", "", TRUE, TRUE)

\* The threshold menu on its own, started either before any scrobbler exists
\* or with monitoring running: of the monitoring controls' effects the
\* threshold code reads only whether self.scrobbler exists.
InitThreshold ==
    /\ \/ /\ self = InitSelf
          /\ monitor_running = FALSE
          /\ completion_threshold = None
          /\ initialized = FALSE
       \/ /\ self = Started.self
          /\ monitor_running = Started.mr
          /\ completion_threshold = NewScrobblerThreshold(DEFAULT_THRESHOLD)
          /\ initialized = TRUE
    /\ setting = DEFAULT_THRESHOLD
    /\ thr = [t \in Threads |-> [pc |-> "idle", new |-> None, timeout |-> FALSE]]
    /\ dlg = [i \in Invocations |-> "idle"]
    /\ result_queue = [i \in Invocations |-> <<>>]
    /\ applyErr = FALSE
    /\ creds = Authenticated
    /\ ev = MenuEvent("init", "", "", <<>>, <<>>, FALSE, 0)

SpecThreshold == InitThreshold /\ [][NextThreshold]_vars

\* the custom-threshold dialog on its own: no preset is selected meanwhile
NextCustom ==
    \/ SetCustomWatchThreshold
    \/ \E i \in Invocations : AskInThread(i)
    \/ \E i \in Invocations : ProcessResultGet(i)
    \/ \E i \in Invocations : ProcessResultTimeout(i)
    \/ \E i \in Invocations : ApplyRead(i)
    \/ \E i \in Invocations : ApplySet(i)
    \/ \E i \in Invocations : ApplyUpdate(i)

SpecCustom == InitThreshold /\ [][NextCustom]_vars

\* The history entry of the menu beside the monitoring controls, with every
\* mapping the credential provider can return.
InitHistory ==
    /\ self = InitSelf
    /\ monitor_running = FALSE
    /\ completion_threshold = None
    /\ setting = DEFAULT_THRESHOLD
    /\ thr = [t \in Threads |-> [pc |-> "idle", new |-> None, timeout |-> FALSE]]
    /\ dlg = [i \in Invocations |-> "idle"]
    /\ result_queue = [i \in Invocations |-> <<>>]
    /\ applyErr = FALSE
    /\ initialized = FALSE
    /\ creds \in Credentials
    /\ ev = MenuEvent("init", "", "", <<>>, <<>>, FALSE, 0)

NextHistory ==
    \/ OpenSimklHistory
    \/ StartMonitoring
    \/ StopMonitoring

SpecHistory == InitHistory /\ [][NextHistory]_vars

\* the monitoring controls with update_status called from outside between
\* them
NextStatus ==
    \/ NextMonitor
    \/ UpdateStatus

SpecStatus == Init /\ [][NextStatus]_vars

\* The monitoring controls beside the threshold menu with one custom dialog:
\* the preset entries on the menu thread and the two threads of the first
\* set_custom_watch_threshold call.
NextSetter ==
    \/ StartMonitoring
    \/ StopMonitoring
    \/ ProcessBacklog
    \/ SetPresetThreshold
    \/ (dlg[1] = "idle" /\ SetCustomWatchThreshold)
    \/ AskInThread(1)
    \/ ProcessResultGet(1)
    \/ ProcessResultTimeout(1)
    \/ \E t \in {MenuThread, 1} : ApplyRead(t)
    \/ \E t \in {MenuThread, 1} : ApplySet(t)
    \/ \E t \in {MenuThread, 1} : ApplyUpdate(t)

SpecSetter == Init /\ [][NextSetter]_vars

\* the preset entries on their own: every _apply_threshold_change runs on the
\* menu thread, one call after the other
NextPreset ==
    \/ SetPresetThreshold
    \/ ApplyRead(MenuThread)
    \/ ApplySet(MenuThread)
    \/ ApplyUpdate(MenuThread)

SpecPreset == InitThreshold /\ [][NextPreset]_vars

----------------------------------------------------------------------------
(* Properties *)

\* no thread is inside _apply_threshold_change or waiting to enter it
Quiescent == \A t \in Threads : thr[t].pc \in {"idle", "done", "crashed"}

\* C1: the persisted threshold and the running scrobbler's
\* completion_threshold are always integers in 1..100.
C1_ThresholdInRange ==
    /\ setting \in 1..100
    /\ completion_threshold # None => completion_threshold[1] \in 1..100

\* C2: once every threshold change has finished (none of them having raised),
\* the persisted setting and the running scrobbler's completion_threshold
\* hold the same value.
C2_SerializedWrites ==
    (Quiescent /\ ~applyErr /\ completion_threshold # None)
        => completion_threshold = Some(setting)

\* start_monitoring finds monitoring running: the flag is set and the monitor
\* has not stopped on its own
AlreadyRunning == ClearStale(self, monitor_running).monitoring_active

\* C3 as stated: start_monitoring returns False when monitoring is already
\* running or initialization fails, and True only when this call started the
\* monitor (a call that an exception leaves returns nothing).
C3_StartFalseWhenRunning ==
    [][ev'.op = "start_monitoring" /\ ev'.ret # "raised" =>
          /\ (AlreadyRunning \/ ev'.path = "init_failed") => ev'.ret = "False"
          /\ ev'.ret = "True" => ev'.path = "started"]_vars

\* C3 amended: start_monitoring called while monitoring is already running
\* returns True and calls neither initialize() nor start(); it never returns
\* True when initialize() or start() failed; and whenever it returns True
\* monitoring_active is True.
C3_StartResult ==
    [][ev'.op = "start_monitoring" =>
          /\ AlreadyRunning => (ev'.ret = "True" /\ ev'.calls = <<>> /\ self' = self)
          /\ ev'.path \in {"init_failed", "start_false", "start_raised"} => ev'.ret # "True"
          /\ ev'.ret = "True" => (self'.monitoring_active /\ (AlreadyRunning \/ ev'.path = "started"))]_vars

\* C3 witness: start_monitoring was called while monitoring was running and
\* returned True
C3_Witness ==
    ev.op = "start_monitoring" /\ ev.path = "already" /\ ev.ret = "True" /\ monitor_running

\* C4: stop_monitoring called while monitoring is not active returns False and
\* changes nothing (no scrobbler.stop(), no status change, no notification);
\* after any stop_monitoring monitoring is not active, so a second call in a
\* row is such a call and scrobbler.stop() runs at most once in the two.
C4_StopIdempotent ==
    [][ev'.op = "stop_monitoring" =>
          /\ ~self'.monitoring_active
          /\ ~self.monitoring_active =>
                /\ ev'.ret = "False"
                /\ ev'.calls = <<>>
                /\ ev'.notes = <<>>
                /\ ev'.icons = 0
                /\ self' = self
                /\ monitor_running' = monitor_running
          /\ self.monitoring_active => ev'.calls = <<"stop">>]_vars

\* C4 witness: stop_monitoring was called right after a stop_monitoring that
\* stopped the scrobbler, and did nothing
C4_Witness ==
    /\ ev.op = "stop_monitoring" /\ ev.ret = "False"
    /\ self.status = "stopped" /\ self.scrobbler # "None" /\ ~monitor_running

Statuses == {"stopped", "running", "error"}

\* C5 as stated: the status makes only the transitions stopped->running,
\* running->stopped, running->error and error->stopped.
C5_StatusMachine ==
    [][/\ self'.status \in Statuses
       /\ self'.status # self.status =>
             <<self.status, self'.status>> \in
                 {<<"stopped", "running">>, <<"running", "stopped">>,
                  <<"running", "error">>, <<"error", "stopped">>}]_vars

\* C5 amended: the status is always stopped, running or error; it becomes
\* running only in a start_monitoring call that called scrobbler.start() and
\* returned True, stopped only in a stop_monitoring call made while
\* monitoring_active, and error only in a failure handler of start_monitoring
\* or of the backlog worker, from any status.
C5_StatusCauses ==
    [][/\ self'.status \in Statuses
       /\ self'.status # self.status =>
             CASE self'.status = "running" ->
                      /\ ev'.op = "start_monitoring" /\ ev'.ret = "True"
                      /\ ev'.path = "started"
               [] self'.status = "stopped" ->
                      /\ ev'.op = "stop_monitoring" /\ self.monitoring_active
               [] OTHER ->
                      /\ ev'.op \in {"start_monitoring", "process_backlog"}
                      /\ ev'.ret # "True"
                      /\ ev'.path \in {"init_failed", "start_false", "start_raised", "backlog_raised"}
                            \/ ev'.sinkFailed]_vars

\* C5 witness: the status is error, entered from stopped by a start_monitoring
\* whose initialize() failed
C5_Witness ==
    /\ ev.op = "start_monitoring" /\ ev.path = "init_failed"
    /\ self.status = "error" /\ ~self.monitoring_active

\* C6: the status is "running" exactly when monitoring_active is True.
C6_RunningIffActive == (self.status = "running") <=> self.monitoring_active

FailurePaths == {"init_failed", "start_false", "start_raised", "backlog_raised"}

\* C7: after a failure path of the control surface the status is "error" and
\* the detail string is not empty.
C7_FailureHasDetail ==
    ev.path \in FailurePaths => (self.status = "error" /\ self.status_details # "")

\* C8: a show_notification call that raises is not propagated, and a start
\* whose scrobbler.start() returned True still ends with monitoring_active
\* True and status "running".
C8_SinkFailureContained ==
    ev.sinkFailed =>
        /\ ev.ret # "raised"
        /\ (ev.op = "start_monitoring" /\ ev.path = "started") =>
               (self.monitoring_active /\ self.status = "running")

\* C9: a processing thread whose wait timed out ends without raising, holds
\* no threshold value, and no step of it changes the persisted threshold or
\* the scrobbler's.
C9_TimeoutIsNoAnswer ==
    [][\A i \in Invocations : thr'[i].timeout =>
          /\ thr'[i].pc # "crashed"
          /\ thr'[i].new = None
          /\ ev'.tid = i => (setting' = setting /\ completion_threshold' = completion_threshold)]_vars

\* the part of C9 that does not rest on the notification sink: after a
\* timeout the thread never holds or applies a value, and the item its dialog
\* puts later stays on the queue
C9_LateValueNeverApplied ==
    [][\A i \in Invocations : thr'[i].timeout =>
          /\ thr'[i].new = None
          /\ ev'.tid = i => (setting' = setting /\ completion_threshold' = completion_threshold)
          /\ thr[i].timeout => Len(result_queue'[i]) >= Len(result_queue[i])]_vars

\* the items processing thread i has taken from its queue
Taken(i) == IF thr[i].pc \notin {"idle", "wait"} /\ ~thr[i].timeout THEN 1 ELSE 0

\* C10: per invocation, the dialog thread puts exactly one item on the
\* invocation's own queue when it ends (the dialog's return value, None if the
\* dialog raised) and nothing before; the processing thread takes at most one
\* item, from that queue only; and a value written to the setting or to the
\* scrobbler by a thread is the one that thread took.
C10_OneShotHandoff ==
    [][/\ \A i \in Invocations :
            Len(result_queue'[i]) + Taken(i)' = (IF dlg'[i] = "done" THEN 1 ELSE 0)
       /\ ev'.op = "dialog" =>
            /\ result_queue' = [result_queue EXCEPT ![ev'.tid] = Append(@, ev'.value)]
            /\ ev'.path = "dialog_raised" => ev'.value = None
       /\ ev'.op = "get" =>
            /\ result_queue[ev'.tid] = <<ev'.value>>
            /\ result_queue' = [result_queue EXCEPT ![ev'.tid] = <<>>]
            /\ thr'[ev'.tid].new = ev'.value
       /\ (ev'.op = "apply_set" /\ setting' # setting) => Some(setting') = thr[ev'.tid].new
       /\ (ev'.op = "apply_update" /\ completion_threshold' # completion_threshold) =>
            completion_threshold' = thr[ev'.tid].new]_vars

\* C10 witness: two invocations overlap, each dialog has put its item and the
\* two processing threads hold the different values they took
C10_Witness ==
    /\ dlg[1] = "done" /\ dlg[2] = "done"
    /\ thr[1].pc = "set" /\ thr[2].pc = "set"
    /\ thr[1].new # thr[2].new
    /\ result_queue[1] = <<>> /\ result_queue[2] = <<>>

\* C11: for every dictionary result {processed, attempted, failed} the backlog
\* summary is exactly one notification: "Processed p of a" when
\* processed > 0, the "will be retried later" message when processed = 0 and
\* attempted > 0, and "No backlog items to process" only when attempted = 0.
C11_BacklogSummary ==
    (ev.op = "process_backlog" /\ ev.path = "summary" /\ ev.value # None) =>
        LET processed_positive == ev.value[1]
            attempted_positive == ev.value[2]
        IN  ev.notes =
                << IF processed_positive THEN "Processed p of a backlog items"
                   ELSE IF attempted_positive THEN "No backlog items processed successfully"
                   ELSE "No backlog items to process" >>

\* C12: whenever get_credentials() lacks client_id or access_token,
\* open_simkl_history makes no get_user_settings call, opens no history page,
\* saves nothing to the credentials file, and reports the missing
\* credentials.  Stated for the calls in which show_notification does not
\* raise.
C12_PartialCredentials ==
    [][(/\ ev'.op = "open_simkl_history"
        /\ ~creds.client_id \/ ~creds.access_token
        /\ ~ev'.sinkFailed) =>
          /\ ev'.calls = <<>>
          /\ creds' = creds
          /\ ev'.notes = <<"Missing credentials to fetch user history">>]_vars

\* the callbacks and steps that are not a threshold change in progress
NonSetterOps == {"start_monitoring", "stop_monitoring", "process_backlog", "preset", "custom",
                 "dialog", "get", "timeout", "apply_read"}

\* C13: the persisted threshold and the completion_threshold of an existing
\* scrobbler change only inside _apply_threshold_change called with a
\* non-None value that differed from the setting it read, and to that value;
\* start_monitoring, stop_monitoring, process_backlog (with the update_status
\* calls they make), _set_preset_threshold with the current value and
\* _apply_threshold_change(None) leave both unchanged and emit no "Settings
\* Updated" notification.
C13_SetterOnly ==
    [][/\ setting' # setting =>
            /\ ev'.op = "apply_set"
            /\ thr[ev'.tid].new = Some(setting')
       /\ (completion_threshold # None /\ completion_threshold' # completion_threshold) =>
            /\ ev'.op = "apply_update"
            /\ thr[ev'.tid].new # None
            /\ completion_threshold' = thr[ev'.tid].new
       /\ \A t \in Threads : (thr[t].pc = "read" /\ thr'[t].pc = "set") =>
            (thr[t].new # None /\ thr[t].new # Some(setting))
       /\ (ev'.op = "preset" /\ thr' # thr) => thr'[MenuThread].new # Some(setting)
       /\ ev'.op \in NonSetterOps =>
            /\ setting' = setting
            /\ completion_threshold # None => completion_threshold' = completion_threshold
            /\ ev'.notes # <<"Settings Updated">>]_vars

\* C13 witness: a scrobbler exists and _apply_threshold_change(None) has
\* returned, leaving the setting and the scrobbler's threshold as they were
C13_Witness ==
    /\ ev.op = "apply_read" /\ ev.path = "cancelled"
    /\ self.scrobbler # "None"
    /\ completion_threshold = Some(setting)

\* C14: scrobbler.start() is invoked only on a scrobbler whose initialize()
\* has returned True; after a start_monitoring whose initialize() failed, a
\* later start_monitoring initializes (successfully) before it calls start().
C14_StartOnlyInitialized ==
    (ev.op = "start_monitoring" /\ \E k \in 1..Len(ev.calls) : ev.calls[k] = "start")
        => initialized

\* C15: with a scrobbler whose completion_threshold equals the persisted
\* setting, once _apply_threshold_change(v) has returned the two are still
\* equal (both v or both the old value), also when set_setting or
\* show_notification raised inside it.  The calls run one after the other, so
\* each starts from what the one before it left.
C15_AllOrNothing ==
    (thr[MenuThread].pc = "idle" /\ completion_threshold # None)
        => completion_threshold = Some(setting)

\* C16: a start_monitoring call made while monitoring_active is True and the
\* monitor has stopped on its own clears the stale flag and calls
\* scrobbler.start(); start_monitoring returns True without calling start()
\* only when the monitor is running.
C16_StaleFlagCleared ==
    [][ev'.op = "start_monitoring" =>
          /\ (self.monitoring_active /\ ~monitor_running) =>
                /\ ev'.calls = <<"start">>
                /\ ev'.path # "already"
                /\ self'.monitoring_active => ev'.path = "started"
          /\ (ev'.ret = "True" /\ ev'.calls = <<>>) =>
                (monitor_running /\ monitor_running' /\ self.monitoring_active)]_vars

\* C16 witness: the monitor had stopped on its own with the status still
\* "running"; start_monitoring called start() again and monitoring runs
C16_Witness ==
    /\ ev.op = "start_monitoring" /\ ev.path = "started" /\ ev.calls = <<"start">>
    /\ ev.icons = 0 /\ ev.ret = "True"
    /\ self.monitoring_active /\ monitor_running

\* C17: update_status called twice in a row with the same arguments changes
\* nothing the second time and does not call update_icon again, in every
\* state, one where last_scrobbled is already set included.  Stated of the
\* state a call update_status(s, d), last_scrobbled omitted, has left: the
\* same call made again.
C17_UpdateStatusIdempotent ==
    (ev.op = "update_status" /\ ev.value[3] = None) =>
        LET new_status == ev.value[1]
            details == ev.value[2]
            last_scrobbled == ev.value[3]
        IN  /\ update_status(self, new_status, details, last_scrobbled) = self
            /\ StatusIcons(self, new_status, details, last_scrobbled) = 0

\* C18: once last_scrobbled is non-empty no update_status, start_monitoring,
\* stop_monitoring or process_backlog call resets it to empty; it changes
\* only in an update_status call given a non-empty last_scrobbled, and to
\* exactly that value.
C18_LastScrobbledKept ==
    [][/\ Truthy(self.last_scrobbled) => Truthy(self'.last_scrobbled)
       /\ self'.last_scrobbled # self.last_scrobbled =>
             /\ ev'.op = "update_status"
             /\ Truthy(ev'.value[3])
             /\ self'.last_scrobbled = ev'.value[3]
       /\ (ev'.op = "update_status" /\ Truthy(ev'.value[3])) =>
             self'.last_scrobbled = ev'.value[3]]_vars

\* C18 witness: last_scrobbled was set to "A" and is still "A" after a
\* failing start_monitoring, a status "error" and an update_status call that
\* passed the empty string
C18_Witness ==
    /\ self.last_scrobbled = Some("A")
    /\ ev.op = "update_status" /\ ev.value[3] = Some("")
    /\ self.scrobbler # "None" /\ self.status = "error"

====
